---- MODULE Spec2Model ----
(***************************************************************************)
(* A model of the cline-mcp-server: the CallTool request handler           *)
(* (index.ts), the SessionManager (lib/sessionManager.ts) and the          *)
(* RedisClient store adapter (index.ts, lines 224-289).                    *)
(*                                                                         *)
(* Every tool call is an async function.  An action of the model is the    *)
(* code that runs between two awaits: the synchronous head of the handler  *)
(* up to the first backend round trip, and each backend command together   *)
(* with the code that continues after it.  Calls of different slots        *)
(* interleave at those points, as they do on the event loop.               *)
(***************************************************************************)
EXTENDS Integers, Sequences, FiniteSets, TLC

VARIABLES
  store,      \* the backend keyspace: key -> JS value (string or null)
  connected,  \* RedisClient.connected
  sock,       \* state of the backend client's socket
  now,        \* the wall clock
  pc,         \* per call slot: where the call is suspended
  call,       \* per call slot: the request (tool name, arguments)
  local,      \* per call slot: the locals that live across an await
  outcome,    \* per call slot: what the caller receives
  io,         \* per call slot: the adapter/backend calls issued so far
  started,    \* number of calls started
  faults,     \* number of injected backend faults
  shutdown,   \* the SIGINT handler: where it is, and what it found and did
  last,       \* history: the call that completed last
  obs         \* history, per call slot: what surrounded the call

vars == <<store, connected, sock, now, pc, call, local, outcome, io, started,
          faults, shutdown, last, obs>>

----------------------------------------------------------------------------
(* Bounds of the model *)

MaxCalls == 2
MaxRpcCalls == 2
MaxTime == 2
EarlierTime == 1
MaxFaults == 1

Procs == {1, 2}

Dirs == {"/a", "/b", "/c"}
Ids == {"s1", "s2"}
Contents == {"x", "y"}

\* The strings the callers of a run put in each parameter.  Here they work in
\* two directories whose hashes differ and every generated id is the same.
Plain == [directory |-> {"/a", "/c"}, sessionId |-> {"s1"}, content |-> Contents]

\* The strings of a run in which the two directories have the same hash and
\* the generator has two ids to draw from.
Colliding == [directory |-> {"/a", "/b"}, sessionId |-> {"s1", "s2"}, content |-> {"x"}]

\* The slot of a caller that awaits each answer before its next request.
OneCaller == {1}

----------------------------------------------------------------------------
(* JavaScript values *)

JSString(s) == [type |-> "string", val |-> s]
JSNumber == [type |-> "number", val |-> "42"]
JSNull == [type |-> "null", val |-> "null"]

\* typeof v.  The empty string has a tag of its own, as null has.
TypeOf(v) ==
  CASE v.type = "null" -> "object"
    [] v.type = "emptystring" -> "string"
    [] OTHER -> v.type

\* !v
Falsy(v) == v.type \in {"null", "undefined", "emptystring"}

\* The argument mapping of a request: undefined, null, a string, or an object
\* with some of the fields present.
NoFields == [f \in {} |-> JSNumber]
ArgsUndefined == [type |-> "undefined", fields |-> NoFields]
ArgsNull == [type |-> "null", fields |-> NoFields]
ArgsString == [type |-> "string", fields |-> NoFields]
ArgsObject(f) == [type |-> "object", fields |-> f]

\* 'f' in args
In(f, args) == f \in DOMAIN args.fields

ToolNames == {"create_session", "get_context", "update_context", "end_session"}
UnknownTool == "no_such_tool"

\* Operations of the registry that have no tool: called directly.
DirectNames == {"validateSession"}

FieldsOf(name) ==
  CASE name = "create_session" -> {"directory"}
    [] name = "update_context" -> {"directory", "sessionId", "content"}
    [] name = UnknownTool -> {"directory"}
    [] OTHER -> {"directory", "sessionId"}

\* The strings of parameter f in the run u.
StringsOf(u, f) == u[f]

ValuesOf(u, f) == {JSString(s) : s \in StringsOf(u, f)} \cup {JSNumber}

AllValues(u) == UNION {ValuesOf(u, f) : f \in {"directory", "sessionId", "content"}}

\* The argument mappings a caller sends to tool `name`: fields the tool does
\* not read are left out.
ArgsFor(u, name) ==
  {ArgsUndefined, ArgsNull, ArgsString} \cup
  {ArgsObject(g) : g \in UNION {{h \in [D -> AllValues(u)] : \A f \in D : h[f] \in ValuesOf(u, f)} :
                                D \in SUBSET FieldsOf(name)}}

\* The typed arguments of a direct call.
TypedArgs(u) == {ArgsObject([directory |-> JSString(d), sessionId |-> JSString(s)]) :
                 d \in StringsOf(u, "directory"), s \in StringsOf(u, "sessionId")}

----------------------------------------------------------------------------
(* SessionManager: keys and the stored record *)

CONTEXT_PREFIX == "cline:context:"

\* crypto.randomBytes(16).toString('hex'): any id of the run may come out.
generateSessionId(u) == StringsOf(u, "sessionId")

\* The first 8 hex digits of the SHA-256 of the path: a function of the path
\* alone, and not injective ("/a" and "/b" stand for two colliding paths).
Hashes == {"h1", "h2"}
hashDirectory(directory) == IF directory \in {"/a", "/b"} THEN "h1" ELSE "h2"

\* `${CONTEXT_PREFIX}${dirHash}:${sessionId}`; the hash has a fixed width, so
\* the string determines the pair.
getContextKey(directory, sessionId) ==
  <<CONTEXT_PREFIX, hashDirectory(directory), sessionId>>

Keys == {<<CONTEXT_PREFIX, h, s>> : h \in Hashes, s \in Ids}

\* new Date().toISOString() has a fixed width: the order of the strings is
\* the order of the instants, which stand for them here.
Times == 0..MaxTime

SessionContext(directory, history, createdAt, lastAccessed) ==
  [directory |-> directory, history |-> history,
   metadata |-> [createdAt |-> createdAt, lastAccessed |-> lastAccessed]]

\* JSON.stringify of a SessionContext: the text lists the members in order.
JSONstringify(context) ==
  [type |-> "string",
   val |-> <<context.directory,
             [i \in 1..Len(context.history) |->
                <<context.history[i].timestamp, context.history[i].content>>],
             <<context.metadata.createdAt, context.metadata.lastAccessed>>>>]

\* JSON.parse(data) as SessionContext
JSONparse(data) ==
  SessionContext(data.val[1],
                 [i \in 1..Len(data.val[2]) |->
                    [timestamp |-> data.val[2][i][1], content |-> data.val[2][i][2]]],
                 data.val[3][1], data.val[3][2])

PushFront(history, entry) == <<entry>> \o history

\* context.history.push(entry)
Push(history, entry) == Append(history, entry)

----------------------------------------------------------------------------
(* What the caller receives *)

\* { content: [{ type: 'text', text }] }
ToolResult(text) == [kind |-> "result", code |-> "none", text |-> text]

\* new Error(message)
Error(message) == [kind |-> "error", code |-> "Error", text |-> message]

\* new McpError(code, message): the message is prefixed by the code.
McpError(code, message) ==
  [kind |-> "error", code |-> code, text |-> <<"MCP error", code>> \o message]

\* The catch of the handler (index.ts 198-204): whatever was thrown inside the
\* try comes out as an InternalError that carries its message.
Caught(error) == McpError("InternalError", error.text)

NotFoundMessage(directory, sessionId) ==
  <<"No context found for session", sessionId, "in directory", directory>>

NoOutcome == [kind |-> "none", code |-> "none", text |-> <<>>]

\* The texts of the success payloads.
SessionIdText(sessionId) == [type |-> "string", val |-> <<"sessionId", sessionId>>]
SuccessText == [type |-> "string", val |-> <<"success", "true">>]
NullText == [type |-> "string", val |-> <<"null">>]
BooleanText(b) == [type |-> "string", val |-> <<"boolean", IF b THEN "true" ELSE "false">>]

ThrownSwallowed(name, error) == ToolResult(NullText)

\* A throw out of a registry operation reaches the tool caller through the
\* catch of the handler, and the direct caller as it is.
Thrown(name, error) == IF name \in DirectNames THEN error ELSE Caught(error)

----------------------------------------------------------------------------
(* The state *)

NoKey == <<>>
NoCall == [name |-> "none", args |-> ArgsUndefined]
NoLocal == [key |-> NoKey, data |-> JSNull, value |-> JSNull, sessionId |-> "",
            conn |-> "none"]

\* History variables.  `last` is the call that completed last: its slot, its
\* request, what it answered, what its key held when it started, and whether
\* it ran with no other call in flight.  obs[p] is, for the call in slot p:
\* the value of `last` when it started if no call was in flight then, whether
\* another call was in flight while it ran, and what its key held at its start.
NoLast == [slot |-> 0, call |-> NoCall, outcome |-> NoOutcome, before |-> JSNull,
           alone |-> TRUE]
NoObs == [prior |-> NoLast, overlapped |-> FALSE, before |-> JSNull]

\* No SIGINT has arrived.  `found` is the state of the socket when it arrives
\* and `released` whether client.disconnect() was called and has returned.
NoShutdown == [phase |-> "running", found |-> "none", released |-> FALSE]

\* The process starts with its slots free and no connection.
Fresh ==
  /\ connected = FALSE
  /\ sock = "closed"
  /\ now = EarlierTime
  /\ pc = [p \in Procs |-> "idle"]
  /\ call = [p \in Procs |-> NoCall]
  /\ local = [p \in Procs |-> NoLocal]
  /\ outcome = [p \in Procs |-> NoOutcome]
  /\ io = [p \in Procs |-> <<>>]
  /\ started = 0
  /\ faults = 0
  /\ shutdown = NoShutdown
  /\ last = NoLast
  /\ obs = [p \in Procs |-> NoObs]

EmptyStore == [k \in Keys |-> JSNull]

\* The records an earlier createSession(directory) and at most one
\* updateContext have left at the key of (directory, sessionId), at the time
\* the process starts.
EarlierRecords(directory) ==
  {JSONstringify(SessionContext(directory, history, EarlierTime, EarlierTime)) :
     history \in {<<>>, <<[timestamp |-> EarlierTime, content |-> "x"]>>}}

\* The backend outlives the process: it is empty, or holds a session that was
\* created before.
EarlierStores(u) ==
  {EmptyStore} \cup
  {[EmptyStore EXCEPT ![getContextKey(d, s)] = v] :
     <<d, s, v>> \in UNION {{<<d, s, v>> : s \in StringsOf(u, "sessionId"), v \in EarlierRecords(d)} :
                            d \in StringsOf(u, "directory")}}

Init ==
  /\ store \in EarlierStores(Plain)
  /\ Fresh

InitRpc ==
  /\ store = EmptyStore
  /\ Fresh

\* new Date(): the clock has not gone back since it was last read.
ReadClock == {t \in Times : now <= t /\ t <= now + 1}

Directory(c) == c.args.fields["directory"].val
SessionId(c) == c.args.fields["sessionId"].val
Content(c) == IF "content" \in DOMAIN c.args.fields THEN c.args.fields["content"].val ELSE ""

InFlight(q) == pc[q] \notin {"idle", "done"}

\* What the key of request r holds, when r names a key.
BeforeOf(r) ==
  IF /\ r.args.type = "object"
     /\ {"directory", "sessionId"} \subseteq DOMAIN r.args.fields
     /\ r.args.fields["directory"].type = "string"
     /\ r.args.fields["sessionId"].type = "string"
    THEN store[getContextKey(Directory(r), SessionId(r))]
    ELSE JSNull

\* The history variables when request r starts in slot p.
Observe(p, r) ==
  obs' = [q \in Procs |->
            IF q = p
              THEN [prior |-> IF \E o \in Procs \ {p} : InFlight(o) THEN NoLast ELSE last,
                    overlapped |-> \E o \in Procs \ {p} : InFlight(o),
                    before |-> BeforeOf(r)]
            ELSE IF InFlight(q) THEN [obs[q] EXCEPT !.overlapped = TRUE]
            ELSE obs[q]]

\* The history variable `last` when the call r of slot p ends with `out`.
Completed(p, r, out) ==
  last' = [slot |-> p, call |-> r, outcome |-> out, before |-> obs'[p].before,
           alone |-> ~obs'[p].overlapped]

----------------------------------------------------------------------------
(* RedisClient: the synchronous head of set / get / delete *)

\* connect() (index.ts 252-256), up to its await: nothing to do when the flag
\* is set; otherwise client.connect() is called, which opens the socket when
\* it is closed and rejects when it is open or being opened.
ConnectResult ==
  IF connected THEN "ready"
  ELSE IF sock = "closed" THEN "pending"
  ELSE "rejected"

\* Slot p, running request r, calls redisClient.<cmd> with the locals `loc`.
Enter(p, r, cmd, loc) ==
  /\ sock' = IF ConnectResult = "pending" THEN "connecting" ELSE sock
  /\ io' = [io EXCEPT ![p] = CASE ConnectResult = "ready" -> Append(@, cmd)
                               [] ConnectResult = "pending" -> Append(Append(@, "connect"), cmd)
                               [] OTHER -> Append(@, "connect")]
  /\ IF ConnectResult = "rejected"
       THEN /\ pc' = [pc EXCEPT ![p] = "done"]
            /\ outcome' = [outcome EXCEPT ![p] = Thrown(r.name, Error(<<"Socket already opened">>))]
            /\ local' = [local EXCEPT ![p] = loc]
            /\ Completed(p, r, Thrown(r.name, Error(<<"Socket already opened">>)))
       ELSE /\ pc' = [pc EXCEPT ![p] = cmd]
            /\ outcome' = [outcome EXCEPT ![p] = NoOutcome]
            /\ local' = [local EXCEPT ![p] = [loc EXCEPT !.conn = ConnectResult]]
            /\ last' = last

\* The call r of slot p ends with `out` and touches nothing of the adapter.
Finish(p, r, out) ==
  /\ pc' = [pc EXCEPT ![p] = "done"]
  /\ outcome' = [outcome EXCEPT ![p] = out]
  /\ Completed(p, r, out)
  /\ UNCHANGED <<sock, io, local>>

----------------------------------------------------------------------------
(* The CallTool handler: everything up to the first await *)

\* 'f' in args && typeof args.f === 'string'
IsStringField(args, f) == In(f, args) /\ TypeOf(args.fields[f]) = "string"

ParamsOKDirectoryUntyped(name, args) ==
  CASE name = "create_session" -> In("directory", args)
    [] name = "update_context" ->
         /\ In("directory", args)
         /\ IsStringField(args, "sessionId")
         /\ IsStringField(args, "content")
    [] OTHER -> In("directory", args) /\ IsStringField(args, "sessionId")

\* The per-tool checks of index.ts 129, 144-145, 160-162, 177-178.
ParamsOK(name, args) ==
  CASE name = "create_session" -> IsStringField(args, "directory")
    [] name = "update_context" ->
         /\ IsStringField(args, "directory")
         /\ IsStringField(args, "sessionId")
         /\ IsStringField(args, "content")
    [] OTHER -> IsStringField(args, "directory") /\ IsStringField(args, "sessionId")

ParamMessage(name) ==
  CASE name = "create_session" -> <<"Invalid directory parameter">>
    [] name = "update_context" -> <<"Invalid directory, sessionId, or content parameter">>
    [] OTHER -> <<"Invalid directory or sessionId parameter">>

InitialContextNoDirectory(directory, createdAt, lastAccessed) ==
  SessionContext("", <<>>, createdAt, lastAccessed)

\* The record createSession writes (sessionManager.ts 49-56).
InitialContext(directory, createdAt, lastAccessed) ==
  SessionContext(directory, <<>>, createdAt, lastAccessed)

\* createSession up to `await redisClient.set` (sessionManager.ts 45-58).
createSession(p, r, u) ==
  \E sessionId \in generateSessionId(u) :
    \E t1 \in ReadClock :
      \E t2 \in {t \in Times : t1 <= t /\ t <= t1 + 1} :
        /\ now' = t2
        /\ Enter(p, r, "set",
                 [key |-> getContextKey(Directory(r), sessionId), data |-> JSNull,
                  value |-> JSONstringify(InitialContext(Directory(r), t1, t2)),
                  sessionId |-> sessionId, conn |-> "none"])

\* getContext, updateContext and validateSession up to `await redisClient.get`
\* and endSession up to `await redisClient.delete`.
KeyedCall(p, r, cmd) ==
  /\ now' = now
  /\ Enter(p, r, cmd,
           [key |-> getContextKey(Directory(r), SessionId(r)), data |-> JSNull,
            value |-> JSNull,
            sessionId |-> SessionId(r), conn |-> "none"])

\* The registry operation that request r runs, once its parameters passed.
Dispatch(p, r, u) ==
  CASE r.name = "create_session" -> createSession(p, r, u)
    [] r.name = "end_session" -> KeyedCall(p, r, "del")
    [] OTHER -> KeyedCall(p, r, "get")

\* The request handler (index.ts 119-205) on request r.
Handler(p, r, u) ==
  IF Falsy(r.args) \/ TypeOf(r.args) # "object"
    THEN /\ Finish(p, r, McpError("InvalidParams", <<"Invalid arguments">>))
         /\ now' = now
  ELSE IF r.name \notin ToolNames
    THEN /\ Finish(p, r, Caught(McpError("MethodNotFound", <<"Unknown tool", r.name>>)))
         /\ now' = now
  ELSE IF ~ParamsOK(r.name, r.args)
    THEN /\ Finish(p, r, Caught(McpError("InvalidParams", ParamMessage(r.name))))
         /\ now' = now
  ELSE Dispatch(p, r, u)

\* Every request, and the requests that pass the checks of the handler.
AllRequests(u) ==
  UNION {{[name |-> name, args |-> args] : args \in ArgsFor(u, name)} :
         name \in ToolNames \cup {UnknownTool}}

WellFormedRequests(u) ==
  {r \in AllRequests(u) :
     /\ r.name \in ToolNames
     /\ r.args.type = "object"
     /\ DOMAIN r.args.fields = FieldsOf(r.name)
     /\ \A f \in DOMAIN r.args.fields : r.args.fields[f].type = "string"}

\* A request of `Requests` arrives in the run u, takes the first free slot, and
\* the handler runs to its first await.
CallTool(p, u, Requests, limit) ==
  /\ pc[p] = "idle"
  /\ \A q \in Procs : q < p => pc[q] # "idle"
  /\ started < limit
  /\ \E r \in Requests :
       /\ call' = [call EXCEPT ![p] = r]
       /\ Observe(p, r)
       /\ Handler(p, r, u)
  /\ started' = started + 1
  /\ UNCHANGED <<store, connected, faults, shutdown>>

\* validateSession is called by code, with typed arguments
\* (sessionManager.ts 124-127).
CallDirect(p, u) ==
  /\ pc[p] = "idle"
  /\ \A q \in Procs : q < p => pc[q] # "idle"
  /\ started < MaxCalls
  /\ \E name \in DirectNames :
       \E args \in TypedArgs(u) :
         /\ call' = [call EXCEPT ![p] = [name |-> name, args |-> args]]
         /\ Observe(p, [name |-> name, args |-> args])
         /\ Dispatch(p, [name |-> name, args |-> args], u)
  /\ started' = started + 1
  /\ UNCHANGED <<store, connected, faults, shutdown>>

----------------------------------------------------------------------------
(* The backend commands and the code that continues after each *)

StoreDeleteNothing(s, key) == s
StoreDeleteAll(s, key) == [k \in DOMAIN s |-> JSNull]

\* client.get / client.set / client.del on the keyspace.
StoreGet(s, key) == s[key]
StoreSet(s, key, value) == [s EXCEPT ![key] = value]
StoreDelete(s, key) == [s EXCEPT ![key] = JSNull]

TouchFresh(context, t) ==
  [context EXCEPT !.history = <<>>, !.metadata.lastAccessed = t]

\* context.metadata.lastAccessed = now (sessionManager.ts 79).
Touch(context, t) == [context EXCEPT !.metadata.lastAccessed = t]

AppendedNothing(context, content, t1, t2) ==
  [context EXCEPT !.metadata.lastAccessed = t2]

\* history.push({timestamp, content}) and the lastAccessed update
\* (sessionManager.ts 100-106).
Appended(context, content, t1, t2) ==
  [context EXCEPT !.history = Push(@, [timestamp |-> t1, content |-> content]),
                  !.metadata.lastAccessed = t2]

AbsentOutcomeSilent(name, directory, sessionId) ==
  CASE name = "validateSession" -> ToolResult(BooleanText(FALSE))
    [] name = "update_context" -> ToolResult(SuccessText)
    [] OTHER -> ToolResult(NullText)

\* What an operation answers when the key holds nothing: getContext returns
\* null (sessionManager.ts 71-74), updateContext throws (93-95),
\* validateSession is false (126).
AbsentOutcome(name, directory, sessionId) ==
  CASE name = "update_context" -> Thrown(name, Error(NotFoundMessage(directory, sessionId)))
    [] name = "validateSession" -> ToolResult(BooleanText(FALSE))
    [] OTHER -> ToolResult(NullText)

\* What an operation answers after its write.
WrittenOutcome(name, loc, directory) ==
  CASE name = "create_session" -> ToolResult(SessionIdText(loc.sessionId))
    [] name = "get_context" -> ToolResult(loc.value)
    [] name = "validateSession" ->
         ToolResult(BooleanText(JSONparse(loc.value).directory = directory))
    [] OTHER -> ToolResult(SuccessText)

\* `await redisClient.get(contextKey)` returns; getContext / updateContext
\* run on to their `await redisClient.set`.
AdapterGet(p) ==
  /\ pc[p] = "get"
  /\ sock = "open"
  /\ obs' = obs
  /\ LET name == call[p].name
         data == StoreGet(store, local[p].key)
     IN IF Falsy(data)
          THEN /\ Finish(p, call[p], AbsentOutcome(name, Directory(call[p]), SessionId(call[p])))
               /\ now' = now
        ELSE IF name = "update_context"
          THEN \E t1 \in ReadClock :
                 \E t2 \in {t \in Times : t1 <= t /\ t <= t1 + 1} :
                   /\ now' = t2
                   /\ Enter(p, call[p], "set",
                            [local[p] EXCEPT !.data = data, !.value =
                               JSONstringify(Appended(JSONparse(data), Content(call[p]), t1, t2))])
        ELSE \E t \in ReadClock :
               /\ now' = t
               /\ Enter(p, call[p], "set",
                        [local[p] EXCEPT !.data = data,
                                         !.value = JSONstringify(Touch(JSONparse(data), t))])
  /\ UNCHANGED <<store, connected, call, started, faults, shutdown>>

\* `await redisClient.set(contextKey, ...)` returns and the operation returns.
AdapterSet(p) ==
  /\ pc[p] = "set"
  /\ sock = "open"
  /\ obs' = obs
  /\ store' = StoreSet(store, local[p].key, local[p].value)
  /\ Finish(p, call[p], WrittenOutcome(call[p].name, local[p], Directory(call[p])))
  /\ UNCHANGED <<connected, now, call, started, faults, shutdown>>

\* `await redisClient.delete(contextKey)` returns and endSession returns.
AdapterDel(p) ==
  /\ pc[p] = "del"
  /\ sock = "open"
  /\ obs' = obs
  /\ store' = StoreDelete(store, local[p].key)
  /\ Finish(p, call[p], ToolResult(SuccessText))
  /\ UNCHANGED <<connected, now, call, started, faults, shutdown>>

\* The backend answers a command with an error: the promise rejects and the
\* adapter hands the rejection on (index.ts 265-282).
CommandFails(p) ==
  /\ pc[p] \in {"get", "set", "del"}
  /\ sock = "open"
  /\ faults < MaxFaults
  /\ faults' = faults + 1
  /\ obs' = obs
  /\ Finish(p, call[p], Thrown(call[p].name, Error(<<"backend error">>)))
  /\ UNCHANGED <<store, connected, now, call, started, shutdown>>

\* The caller has its answer; the slot is free for the next request, when
\* one is still to come.
Return(p, limit) ==
  /\ pc[p] = "done"
  /\ started < limit
  /\ pc' = [pc EXCEPT ![p] = "idle"]
  /\ call' = [call EXCEPT ![p] = NoCall]
  /\ local' = [local EXCEPT ![p] = NoLocal]
  /\ outcome' = [outcome EXCEPT ![p] = NoOutcome]
  /\ io' = [io EXCEPT ![p] = <<>>]
  /\ obs' = [obs EXCEPT ![p] = NoObs]
  /\ UNCHANGED <<store, connected, sock, now, started, faults, shutdown, last>>

\* The client's 'connect' event (index.ts 246-249): the socket is open.
ConnectEvent ==
  /\ sock \in {"connecting", "reconnecting"}
  /\ sock' = "open"
  /\ connected' = TRUE
  /\ UNCHANGED <<store, now, pc, call, local, outcome, io, started, faults, shutdown,
               last, obs>>

\* The client's 'error' event (index.ts 241-244): the socket broke and the
\* client reconnects by itself.
ErrorEvent ==
  /\ sock = "open"
  /\ faults < MaxFaults
  /\ faults' = faults + 1
  /\ sock' = "reconnecting"
  /\ connected' = FALSE
  /\ UNCHANGED <<store, now, pc, call, local, outcome, io, started, shutdown, last, obs>>

\* SIGINT arrives (index.ts 33-36): cleanup() calls redisClient.disconnect(),
\* which calls client.disconnect() only when the connected flag is set
\* (index.ts 258-263) and otherwise returns at once.
Sigint ==
  /\ shutdown.phase = "running"
  /\ shutdown' = [phase |-> IF connected THEN "disconnect" ELSE "close",
                  found |-> sock, released |-> FALSE]
  /\ UNCHANGED <<store, connected, sock, now, pc, call, local, outcome, io, started,
                 faults, last, obs>>

\* `await this.client.disconnect()` returns: the socket is closed and the
\* flag cleared (index.ts 260-261).
DisconnectReturns ==
  /\ shutdown.phase = "disconnect"
  /\ sock' = "closed"
  /\ connected' = FALSE
  /\ shutdown' = [shutdown EXCEPT !.phase = "close", !.released = TRUE]
  /\ UNCHANGED <<store, now, pc, call, local, outcome, io, started, faults, last, obs>>

\* `await this.server.close()` returns and process.exit(0) runs
\* (index.ts 211, 35).
Exit ==
  /\ shutdown.phase = "close"
  /\ shutdown' = [shutdown EXCEPT !.phase = "exited"]
  /\ UNCHANGED <<store, connected, sock, now, pc, call, local, outcome, io, started,
                 faults, last, obs>>

\* The process has not exited.
Alive == shutdown.phase # "exited"

\* Well-formed requests against a backend that answers every command.
Next ==
  \/ \E p \in Procs : CallTool(p, Plain, WellFormedRequests(Plain), MaxCalls)
  \/ \E p \in Procs : CallDirect(p, Plain)
  \/ \E p \in Procs : AdapterGet(p)
  \/ \E p \in Procs : AdapterSet(p)
  \/ \E p \in Procs : AdapterDel(p)
  \/ \E p \in Procs : Return(p, MaxCalls)
  \/ ConnectEvent

Spec == Init /\ [][Next]_vars

\* Any request, one at a time, against a backend that may fail.
NextRpc ==
  \/ \E p \in OneCaller : CallTool(p, Plain, AllRequests(Plain), MaxRpcCalls)
  \/ \E p \in OneCaller : AdapterGet(p)
  \/ \E p \in OneCaller : AdapterSet(p)
  \/ \E p \in OneCaller : AdapterDel(p)
  \/ \E p \in OneCaller : CommandFails(p)
  \/ \E p \in OneCaller : Return(p, MaxRpcCalls)
  \/ ConnectEvent
  \/ ErrorEvent

RpcSpec == InitRpc /\ [][NextRpc]_vars

\* The backend at the start of a run over two directories of one hash.
InitColliding ==
  /\ store \in EarlierStores(Colliding)
  /\ Fresh

\* Well-formed requests over two directories of one hash.
NextColliding ==
  \/ \E p \in Procs : CallTool(p, Colliding, WellFormedRequests(Colliding), MaxCalls)
  \/ \E p \in Procs : AdapterGet(p)
  \/ \E p \in Procs : AdapterSet(p)
  \/ \E p \in Procs : AdapterDel(p)
  \/ \E p \in Procs : Return(p, MaxCalls)
  \/ ConnectEvent

CollidingSpec == InitColliding /\ [][NextColliding]_vars

\* Well-formed requests and backend events until a SIGINT ends the process.
NextShutdown ==
  \/ Alive /\ \E p \in Procs : CallTool(p, Plain, WellFormedRequests(Plain), MaxCalls)
  \/ Alive /\ \E p \in Procs : AdapterGet(p)
  \/ Alive /\ \E p \in Procs : AdapterSet(p)
  \/ Alive /\ \E p \in Procs : AdapterDel(p)
  \/ Alive /\ \E p \in Procs : Return(p, MaxCalls)
  \/ Alive /\ ConnectEvent
  \/ Alive /\ ErrorEvent
  \/ Sigint
  \/ DisconnectReturns
  \/ Exit

ShutdownSpec == InitRpc /\ [][NextShutdown]_vars

\* The get_context and update_context requests of a run.
ReadWriteRequests(u) ==
  {r \in WellFormedRequests(u) : r.name \in {"get_context", "update_context"}}

\* getContext and updateContext calls only, in any interleaving.
NextReadWrite ==
  \/ \E p \in Procs : CallTool(p, Plain, ReadWriteRequests(Plain), MaxCalls)
  \/ \E p \in Procs : AdapterGet(p)
  \/ \E p \in Procs : AdapterSet(p)
  \/ \E p \in Procs : Return(p, MaxCalls)
  \/ ConnectEvent

ReadWriteSpec == Init /\ [][NextReadWrite]_vars

----------------------------------------------------------------------------
(* Properties of the session operations, run one after the other *)

KeyOf(c) == getContextKey(Directory(c), SessionId(c))

\* The call in slot p has returned from `name` on (d, id) with a payload.
Returned(p, name) ==
  /\ pc[p] = "done"
  /\ call[p].name = name
  /\ outcome[p].kind = "result"

\* The call in slot p came right after a call of `name` that returned a
\* payload, and no other call ran beside it.
Follows(p, name) ==
  /\ ~obs[p].overlapped
  /\ obs[p].prior.call.name = name
  /\ obs[p].prior.outcome.kind = "result"

SameSession(c1, c2) ==
  Directory(c1) = Directory(c2) /\ SessionId(c1) = SessionId(c2)

\* C1: createSession(d) returns an id such that the getContext(d, id) issued
\* next, with no other call in between, returns a present record whose
\* history is empty and whose directory is d.
CreateThenGet ==
  \A p \in Procs :
    (/\ pc[p] = "done"
     /\ call[p].name = "get_context"
     /\ Follows(p, "create_session")
     /\ Directory(obs[p].prior.call) = Directory(call[p])
     /\ obs[p].prior.outcome.text = SessionIdText(SessionId(call[p])))
    => /\ outcome[p].kind = "result"
       /\ outcome[p].text # NullText
       /\ JSONparse(outcome[p].text).history = <<>>
       /\ JSONparse(outcome[p].text).directory = Directory(call[p])

CreateThenGetWitness ==
  \E p \in Procs :
    /\ Returned(p, "get_context")
    /\ Follows(p, "create_session")
    /\ Directory(obs[p].prior.call) = Directory(call[p])
    /\ obs[p].prior.outcome.text = SessionIdText(SessionId(call[p]))
    /\ outcome[p].text # NullText
    /\ JSONparse(outcome[p].text).directory = Directory(call[p])

\* C2: a successful updateContext(d, id, c) followed by getContext(d, id), run
\* one after the other with no call beside them, returns a history whose last
\* entry has content c and a timestamp >= createdAt, and whose earlier entries
\* are the history before the update, in order.
UpdateThenGet ==
  \A p \in Procs :
    (/\ pc[p] = "done"
     /\ call[p].name = "get_context"
     /\ Follows(p, "update_context")
     /\ obs[p].prior.alone
     /\ SameSession(obs[p].prior.call, call[p]))
    => /\ outcome[p].kind = "result"
       /\ outcome[p].text # NullText
       /\ obs[p].prior.before # JSNull
       /\ LET got == JSONparse(outcome[p].text)
              old == JSONparse(obs[p].prior.before).history
          IN /\ Len(got.history) = Len(old) + 1
             /\ SubSeq(got.history, 1, Len(old)) = old
             /\ got.history[Len(got.history)].content = Content(obs[p].prior.call)
             /\ got.history[Len(got.history)].timestamp >= got.metadata.createdAt

UpdateThenGetWitness ==
  \E p \in Procs :
    /\ Returned(p, "get_context")
    /\ Follows(p, "update_context")
    /\ obs[p].prior.alone
    /\ SameSession(obs[p].prior.call, call[p])
    /\ outcome[p].text # NullText
    /\ Len(JSONparse(outcome[p].text).history) = 2
    /\ JSONparse(outcome[p].text).history[2].content = "y"
    /\ JSONparse(outcome[p].text).history[2].timestamp > JSONparse(outcome[p].text).metadata.createdAt

\* C3: after endSession(d, id) has completed, a following getContext(d, id)
\* returns null and a following updateContext(d, id, c) fails with the
\* not-found error, whatever the session held before.
EndThenGetOrUpdate ==
  \A p \in Procs :
    (/\ pc[p] = "done"
     /\ call[p].name \in {"get_context", "update_context"}
     /\ Follows(p, "end_session")
     /\ SameSession(obs[p].prior.call, call[p]))
    => IF call[p].name = "get_context"
         THEN outcome[p] = ToolResult(NullText)
         ELSE /\ outcome[p].kind = "error"
              /\ outcome[p].text = <<"MCP error", "InternalError">> \o
                   <<"No context found for session", SessionId(call[p]),
                     "in directory", Directory(call[p])>>

EndThenGetOrUpdateWitness ==
  \E p, q \in Procs :
    /\ pc[p] = "done" /\ call[p].name = "update_context"
    /\ pc[q] = "done" /\ call[q].name = "end_session"
    /\ Follows(p, "end_session")
    /\ obs[p].prior.call = call[q]
    /\ SameSession(call[q], call[p])
    /\ obs[q].before # JSNull
    /\ outcome[p].kind = "error"

\* C4: updateContext(d, id, c) on a key that is absent fails with the
\* not-found error and writes nothing: the store is as it was.
UpdateMissing ==
  [][\A p \in Procs :
       (/\ pc[p] = "get"
        /\ pc'[p] # "get"
        /\ call[p].name = "update_context"
        /\ store[KeyOf(call[p])] = JSNull)
       => /\ pc'[p] = "done"
          /\ outcome'[p].kind = "error"
          /\ outcome'[p].text = <<"MCP error", "InternalError">> \o
               <<"No context found for session", SessionId(call[p]),
                 "in directory", Directory(call[p])>>
          /\ io'[p] = <<"get">> \/ io'[p] = <<"connect", "get">>
          /\ store' = store]_vars

UpdateMissingWitness ==
  \E p \in Procs :
    /\ pc[p] = "done"
    /\ call[p].name = "update_context"
    /\ outcome[p].kind = "error"
    /\ obs[p].before = JSNull
    /\ store[KeyOf(call[p])] = JSNull
    /\ \E k \in Keys : store[k] # JSNull

\* C5: endSession on an absent key succeeds and leaves the store as it was;
\* endSession removes its key and no other, so that a second endSession
\* leaves the store of the first.
EndIdempotent ==
  [][\A p \in Procs :
       (pc[p] = "del" /\ pc'[p] = "done")
       => /\ outcome'[p] = ToolResult(SuccessText)
          /\ store'[KeyOf(call[p])] = JSNull
          /\ \A k \in Keys \ {KeyOf(call[p])} : store'[k] = store[k]
          /\ store[KeyOf(call[p])] = JSNull => store' = store]_vars

EndIdempotentWitness ==
  \E p \in Procs :
    /\ Returned(p, "end_session")
    /\ Follows(p, "end_session")
    /\ SameSession(obs[p].prior.call, call[p])
    /\ obs[p].prior.before # JSNull
    /\ obs[p].before = JSNull
    /\ store[KeyOf(call[p])] = JSNull

\* C6: getContext twice in succession on an existing session: the second
\* lastAccessed is >= the first, both calls return the history stored before
\* the first call, and that history is what is stored afterwards.
GetTwice ==
  \A p \in Procs :
    (/\ Returned(p, "get_context")
     /\ Follows(p, "get_context")
     /\ obs[p].prior.alone
     /\ SameSession(obs[p].prior.call, call[p])
     /\ obs[p].prior.outcome.text # NullText)
    => /\ outcome[p].text # NullText
       /\ obs[p].prior.before # JSNull
       /\ LET first == JSONparse(obs[p].prior.outcome.text)
              second == JSONparse(outcome[p].text)
              old == JSONparse(obs[p].prior.before).history
          IN /\ second.metadata.lastAccessed >= first.metadata.lastAccessed
             /\ first.history = old
             /\ second.history = old
             /\ last.slot = p =>
                  /\ store[KeyOf(call[p])] # JSNull
                  /\ JSONparse(store[KeyOf(call[p])]).history = old

GetTwiceWitness ==
  \E p \in Procs :
    /\ Returned(p, "get_context")
    /\ Follows(p, "get_context")
    /\ obs[p].prior.alone
    /\ SameSession(obs[p].prior.call, call[p])
    /\ obs[p].prior.outcome.text # NullText
    /\ outcome[p].text # NullText
    /\ last.slot = p
    /\ Len(JSONparse(outcome[p].text).history) = 1
    /\ JSONparse(outcome[p].text).metadata.lastAccessed >
         JSONparse(obs[p].prior.outcome.text).metadata.lastAccessed

----------------------------------------------------------------------------
(* Properties of the request handler *)

\* The parameters each tool requires.
RequiredParams(name) ==
  CASE name = "create_session" -> {"directory"}
    [] name = "update_context" -> {"directory", "sessionId", "content"}
    [] OTHER -> {"directory", "sessionId"}

\* The argument mapping is missing or is not an object.
ArgsMissing(c) == c.args.type # "object"

\* A required parameter is missing or is not a string.
ParamMissing(c) ==
  /\ c.name \in ToolNames
  /\ c.args.type = "object"
  /\ \E f \in RequiredParams(c.name) :
       f \notin DOMAIN c.args.fields \/ c.args.fields[f].type # "string"

\* C7: a call of a tool that is none of the four (here with an argument
\* mapping that is an object) is answered with the method-not-found error and
\* makes no store access.
UnknownToolMethodNotFound ==
  \A p \in Procs :
    (pc[p] = "done" /\ call[p].name \notin ToolNames \cup {"none"} /\ ~ArgsMissing(call[p]))
    => /\ outcome[p].kind = "error"
       /\ outcome[p].code = "MethodNotFound"
       /\ io[p] = <<>>

\* C8: a call of one of the four tools with a required parameter missing or
\* not a string is answered with the invalid-params error, as a call whose
\* argument mapping is missing is.
ParamMissingInvalidParams ==
  \A p \in Procs :
    (pc[p] = "done" /\ (ParamMissing(call[p]) \/ (call[p].name \in ToolNames /\ ArgsMissing(call[p]))))
    => /\ outcome[p].kind = "error"
       /\ outcome[p].code = "InvalidParams"

\* C9: a call that fails parameter validation makes no store access: no get,
\* set or delete, no connection attempt; store and connection are as before.
InvalidCallTouchesNothing ==
  [][\A p \in Procs :
       (/\ pc[p] = "idle"
        /\ pc'[p] # "idle"
        /\ ParamMissing(call'[p]) \/ ArgsMissing(call'[p]))
       => /\ pc'[p] = "done"
          /\ outcome'[p].kind = "error"
          /\ io'[p] = <<>>
          /\ UNCHANGED <<store, connected, sock>>]_vars

InvalidCallTouchesNothingWitness ==
  \E p \in Procs :
    /\ pc[p] = "done"
    /\ ParamMissing(call[p])
    /\ outcome[p].kind = "error"
    /\ io[p] = <<>>
    /\ connected
    /\ \E k \in Keys : store[k] # JSNull

\* C10: the error answered for update_context on a missing session is of
\* another kind than the error answered for a parameter-validation failure
\* (here: the failure of the call that came just before).
NotFoundDistinctFromValidation ==
  \A p \in Procs :
    (/\ pc[p] = "done"
     /\ call[p].name = "update_context"
     /\ ~ParamMissing(call[p]) /\ ~ArgsMissing(call[p])
     /\ outcome[p].kind = "error"
     /\ outcome[p].text = <<"MCP error", "InternalError">> \o
          NotFoundMessage(Directory(call[p]), SessionId(call[p]))
     /\ obs[p].prior.slot # 0
     /\ ParamMissing(obs[p].prior.call) \/ ArgsMissing(obs[p].prior.call))
    => outcome[p].code # obs[p].prior.outcome.code

----------------------------------------------------------------------------
(* Properties of the keys *)

\* The call in slot p is at a backend command on a key that holds the record
\* of a session of another directory, and takes its next step.
AtOthersRecord(p) ==
  /\ pc[p] \in {"get", "set", "del"}
  /\ pc'[p] # pc[p]
  /\ call[p].name \in {"get_context", "update_context", "end_session"}
  /\ store[local[p].key] # JSNull
  /\ JSONparse(store[local[p].key]).directory # Directory(call[p])

\* C11: getContext(d2, s), updateContext(d2, s, c) and endSession(d2, s) with
\* d2 # d neither return, modify nor delete the record of session (d, s),
\* also when d2 and d have the same hash.
OnlyTheExactPair ==
  [][\A p \in Procs :
       AtOthersRecord(p)
       => /\ store' = store
          /\ (pc'[p] = "done" /\ outcome'[p].kind = "result")
               => outcome'[p].text \in {NullText, SuccessText}]_vars

\* C12: the key a createSession writes is absent at the time of the write.
CreateWritesAbsentKey ==
  [][\A p \in Procs :
       (/\ pc[p] = "set"
        /\ call[p].name = "create_session"
        /\ pc'[p] = "done"
        /\ outcome'[p].kind = "result")
       => store[local[p].key] = JSNull]_vars

----------------------------------------------------------------------------
(* Properties of the backend errors *)

\* In this step client.connect(), called for the call of slot p, rejects.
ConnectRejects(p) ==
  /\ Len(io'[p]) = Len(io[p]) + 1
  /\ io'[p][Len(io'[p])] = "connect"

\* In this step the backend command the call of slot p awaits rejects.
CommandRejects(p) ==
  /\ pc[p] \in {"get", "set", "del"}
  /\ pc'[p] # pc[p]
  /\ faults' = faults + 1

\* C13: when a store call (connect, get, set or delete) of a tool call fails,
\* the tool call ends with an error result that carries the message of the
\* failure, and not with a success payload; so for the write-back of
\* get_context after its read.
NoErrorSwallowed ==
  [][\A p \in Procs :
       /\ (ConnectRejects(p) /\ call'[p].name \in ToolNames)
            => /\ pc'[p] = "done"
               /\ outcome'[p].kind = "error"
               /\ outcome'[p].text = <<"MCP error", "InternalError", "Socket already opened">>
       /\ (CommandRejects(p) /\ call[p].name \in ToolNames)
            => /\ pc'[p] = "done"
               /\ outcome'[p].kind = "error"
               /\ outcome'[p].text = <<"MCP error", "InternalError", "backend error">>]_vars

NoErrorSwallowedWitness ==
  \E p \in Procs :
    /\ pc[p] = "done"
    /\ call[p].name = "get_context"
    /\ io[p] = <<"get", "set">>
    /\ faults = 1
    /\ store[local[p].key] # JSNull
    /\ outcome[p].kind = "error"
    /\ outcome[p].text = <<"MCP error", "InternalError", "backend error">>

----------------------------------------------------------------------------
(* Properties of the interleavings of the registry operations *)

\* In this step the set of the call in slot p reaches the store.
Writes(p) ==
  /\ pc[p] = "set"
  /\ pc'[p] = "done"
  /\ faults' = faults

Stored(k) == JSONparse(store[k])
StoredNext(k) == JSONparse(store'[k])

IsPrefix(s, t) == Len(s) <= Len(t) /\ SubSeq(t, 1, Len(s)) = s

\* C14: a key changes from absent to present only by a createSession write.
AbsentToPresentByCreateOnly ==
  [][\A k \in Keys :
       (store[k] = JSNull /\ store'[k] # JSNull)
       => \E p \in Procs :
            /\ Writes(p)
            /\ local[p].key = k
            /\ call[p].name = "create_session"]_vars

\* C15: when two updateContext calls on one session have read the same prior
\* record and both have reported success, the stored history is the prior
\* history and the one entry of the call that wrote last: the entry of the
\* other call is not in it.
LostUpdate ==
  \A p, q \in Procs :
    (/\ p # q
     /\ Returned(p, "update_context")
     /\ Returned(q, "update_context")
     /\ local[p].key = local[q].key
     /\ local[p].data = local[q].data
     /\ last.slot = q)
    => /\ store[local[q].key] = local[q].value
       /\ LET prior == JSONparse(local[p].data).history
              final == Stored(local[q].key).history
          IN /\ Len(final) = Len(prior) + 1
             /\ SubSeq(final, 1, Len(prior)) = prior
             /\ final[Len(final)].content = Content(call[q])

LostUpdateWitness ==
  \E p, q \in Procs :
    /\ p # q
    /\ Returned(p, "update_context")
    /\ Returned(q, "update_context")
    /\ local[p].key = local[q].key
    /\ local[p].data = local[q].data
    /\ last.slot = q
    /\ Content(call[p]) = "y"
    /\ Content(call[q]) = "x"
    /\ \A i \in 1..Len(Stored(local[q].key).history) :
         Stored(local[q].key).history[i].content # "y"

\* C16: for as long as a key stays present, the stored history after a step
\* has the stored history before the step as a prefix.
HistoryAppendOnly ==
  [][\A k \in Keys :
       (store[k] # JSNull /\ store'[k] # JSNull)
       => IsPrefix(Stored(k).history, StoredNext(k).history)]_vars

\* C17: the write of getContext changes lastAccessed only: directory, history
\* and createdAt of the stored record are the same before and after it.
GetWritesLastAccessedOnly ==
  [][\A p \in Procs :
       (/\ Writes(p)
        /\ call[p].name = "get_context"
        /\ store[local[p].key] # JSNull)
       => /\ StoredNext(local[p].key).directory = Stored(local[p].key).directory
          /\ StoredNext(local[p].key).history = Stored(local[p].key).history
          /\ StoredNext(local[p].key).metadata.createdAt =
               Stored(local[p].key).metadata.createdAt]_vars

\* createdAt <= every history timestamp <= lastAccessed, and the history
\* timestamps do not decrease along the list.
WellOrdered(context) ==
  /\ context.metadata.createdAt <= context.metadata.lastAccessed
  /\ \A i \in 1..Len(context.history) :
       /\ context.metadata.createdAt <= context.history[i].timestamp
       /\ context.history[i].timestamp <= context.metadata.lastAccessed
       /\ \A j \in 1..i : context.history[j].timestamp <= context.history[i].timestamp

----------------------------------------------------------------------------
(* Properties of the connection *)

\* In this step client.connect() is called for the call of slot p.
ConnectBegun(p) ==
  \E i \in (Len(io[p]) + 1)..Len(io'[p]) : io'[p][i] = "connect"

\* In this step the call of slot p enters set, get or delete of the adapter.
EntersAdapter(p) ==
  /\ pc[p] \in {"idle", "get"}
  /\ pc'[p] # pc[p]
  /\ io'[p] # io[p]

\* C18: the backend connect is begun only when no connection is open or being
\* opened, and an operation that finds one open or being opened goes on to
\* its command on that connection.
ConnectsOnce ==
  [][\A p \in Procs :
       /\ ConnectBegun(p) => sock = "closed"
       /\ (EntersAdapter(p) /\ sock # "closed")
            => pc'[p] \in {"get", "set", "del"}]_vars

\* C19: on SIGINT, when the connection is open or being opened, the process
\* exits only after client.disconnect() was called and has returned.
ReleasedBeforeExit ==
  (/\ shutdown.phase = "exited"
   /\ shutdown.found \in {"open", "connecting", "reconnecting"})
  => shutdown.released

====
